---- MODULE Spec2Model ----
(***************************************************************************)
(* Model of two list hydrate functions of the AWS plugin and of the helper *)
(* functions of the aws_ec2_ami_shared table:                              *)
(*   listAWSExplorerSupportedTypes  (paginated lister)                     *)
(*   listAmisByOwner                (single DescribeImages call)           *)
(*   buildAmisWithOwnerFilter       (predicate map -> provider filters)    *)
(*   getImageOwnerAlias             (per-row owner alias)                  *)
(* together with the per-connection cache that wraps getCommonColumns.     *)
(***************************************************************************)
EXTENDS Integers, Sequences, FiniteSets, TLC

VARIABLES
    fn,         \* the list function that runs: "explorer", "amis", or "ami"
    quals,      \* d.Quals / d.KeyColumnQuals: column name -> qual value
    pc,         \* position of the list function
    firstPage,  \* paginator.firstPage
    nextToken,  \* paginator.nextToken
    output,     \* number of items of the page being ranged over
    idx,        \* number of items of that page already streamed
    streamed,   \* rows passed to d.StreamListItem, in order
    fetches,    \* log of the provider calls issued (token sent, outcome)
    raised,     \* the error the provider or the client factory raised
    err,        \* the error the list function returned
    zeroAt,     \* number of rows streamed when RowsRemaining first returned 0
    input,      \* the DescribeImagesInput sent to the provider
    filters,    \* the return value of buildAmisWithOwnerFilter
    cache,      \* connection cache entry of getCommonColumns
    lock,       \* holder of the hydrate function lock of getCommonColumns
    calls,      \* log of the getCommonColumns calls issued (caller, outcome)
    apc,        \* position of every user of the cached function
    aret,       \* what the cached function returned to each user
    image,      \* h.Item of every getImageOwnerAlias call
    alias       \* the return value of every getImageOwnerAlias call

vars == <<fn, quals, pc, firstPage, nextToken, output, idx, streamed, fetches,
          raised, err, zeroAt, input, filters, cache, lock, calls, apc, aret,
          image, alias>>

listVars == <<firstPage, nextToken, output, idx, streamed, fetches, zeroAt>>
cacheVars == <<cache, lock, calls, apc, aret, image, alias>>

---------------------------------------------------------------------------
(* Bounds of the model. *)

MaxPage == 2        \* most items the provider puts in one page
MaxFetches == 4     \* most provider calls explored in one run
MaxQuals == 2       \* most optional predicates in one predicate map
NumHydrates == 2    \* getImageOwnerAlias calls in one query context

(* Program constants. *)
Limit == 100
StopOnDuplicateToken == TRUE

---------------------------------------------------------------------------
(* Values. *)

NoToken == "<nil>"                  \* a nil *string
TokenValues == {"", "t1", "t2"}     \* tokens the provider may return
NoError == "<nil>"                  \* a nil error
Errors == {"AccessDenied", "Throttling"}
NoIdentity == "<none>"              \* cache miss
Accounts == {"111111111111", "222222222222"}
CallerAccount == "111111111111"     \* the account getCommonColumns resolves
NoAlias == "<nil>"                  \* Image.ImageOwnerAlias == nil
Aliases == {"amazon"}
Lister == 0                         \* the list function as a cache user

Last(s) == s[Len(s)]

RECURSIVE AllRows(_)
(* The items of the pages fetched so far, in page order and item order.  *)
(* Item i of the k-th provider call is <<k, i>>.                          *)
AllRows(f) ==
    IF f = <<>> THEN <<>>
    ELSE AllRows(SubSeq(f, 1, Len(f) - 1))
             \o [i \in 1..Last(f).n |-> <<Len(f), i>>]

---------------------------------------------------------------------------
(* Qual values.  A value is <<"string", s>>, <<"bool", b>> or <<"list", l>>. *)

StringValues == {<<"string", "x">>, <<"string", "">>}
BoolValues == {<<"bool", TRUE>>, <<"bool", FALSE>>}
ListValues == {<<"list", <<"x", "y">>>>}
QualValue == StringValues \cup BoolValues \cup ListValues

(* The columns of the table that may carry a predicate: the optional key  *)
(* columns of the List config and the key column of the Get config.       *)
StringColumns ==
    {"architecture", "description", "hypervisor", "image_type", "kernel_id",
     "name", "platform", "ramdisk_id", "root_device_name", "root_device_type",
     "state", "sriov_net_support", "virtualization_type", "image_id"}
BoolColumns == {"ena_support", "public"}
OptionalColumns == StringColumns \cup BoolColumns

(* QualValue.GetStringValue(): the string of a string value, "" otherwise. *)
GetStringValue(v) == IF v[1] = "string" THEN v[2] ELSE ""

(* fmt.Sprint of a bool. *)
FormatBool(b) == IF b THEN "true" ELSE "false"

(* fmt.Sprint of a value held in an interface{}. *)
Sprint(v) ==
    CASE v[1] = "bool" -> FormatBool(v[2])
      [] v[1] = "string" -> v[2]
      [] v = <<"list", <<"x", "y">>>> -> "[x y]"

(* getQualsValueByColumn: the literal of the column's predicate; a value  *)
(* that is not of the asked kind comes back as it is.                      *)
getQualsValueByColumn(q, columnName, dataType) == q[columnName]

(* The static table of buildAmisWithOwnerFilter: column -> filter key.    *)
filterQuals ==
    [columnName \in
        {"architecture", "description", "ena_support", "hypervisor",
         "image_id ", "image_type", "kernel_id", "name", "platform", "public",
         "ramdisk_id", "root_device_name", "root_device_type", "state",
         "sriov_net_support", "virtualization_type"} |->
        CASE columnName = "architecture" -> "architecture"
          [] columnName = "description" -> "description"
          [] columnName = "ena_support" -> "ena-support"
          [] columnName = "hypervisor" -> "hypervisor"
          [] columnName = "image_id " -> "image-id "
          [] columnName = "image_type" -> "image-type"
          [] columnName = "kernel_id" -> "kernel-id"
          [] columnName = "name" -> "name"
          [] columnName = "platform" -> "platform"
          [] columnName = "public" -> "is-public"
          [] columnName = "ramdisk_id" -> "ramdisk-id"
          [] columnName = "root_device_name" -> "root-device-name"
          [] columnName = "root_device_type" -> "root-device-type"
          [] columnName = "state" -> "state"
          [] columnName = "sriov_net_support" -> "sriov-net-support"
          [] columnName = "virtualization_type" -> "virtualization-type"]

(* The characters of a column name, for strings.Contains. *)
Chars(s) ==
    CASE s = "architecture" -> <<"a","r","c","h","i","t","e","c","t","u","r","e">>
      [] s = "description" -> <<"d","e","s","c","r","i","p","t","i","o","n">>
      [] s = "ena_support" -> <<"e","n","a","_","s","u","p","p","o","r","t">>
      [] s = "hypervisor" -> <<"h","y","p","e","r","v","i","s","o","r">>
      [] s = "image_id " -> <<"i","m","a","g","e","_","i","d"," ">>
      [] s = "image_id" -> <<"i","m","a","g","e","_","i","d">>
      [] s = "image_type" -> <<"i","m","a","g","e","_","t","y","p","e">>
      [] s = "kernel_id" -> <<"k","e","r","n","e","l","_","i","d">>
      [] s = "name" -> <<"n","a","m","e">>
      [] s = "platform" -> <<"p","l","a","t","f","o","r","m">>
      [] s = "public" -> <<"p","u","b","l","i","c">>
      [] s = "ramdisk_id" -> <<"r","a","m","d","i","s","k","_","i","d">>
      [] s = "root_device_name" ->
             <<"r","o","o","t","_","d","e","v","i","c","e","_","n","a","m","e">>
      [] s = "root_device_type" ->
             <<"r","o","o","t","_","d","e","v","i","c","e","_","t","y","p","e">>
      [] s = "state" -> <<"s","t","a","t","e">>
      [] s = "sriov_net_support" ->
             <<"s","r","i","o","v","_","n","e","t","_","s","u","p","p","o","r","t">>
      [] s = "virtualization_type" ->
             <<"v","i","r","t","u","a","l","i","z","a","t","i","o","n","_","t","y","p","e">>

(* strings.Contains on character sequences. *)
Contains(s, substr) ==
    \E i \in 0..(Len(s) - Len(substr)) : SubSeq(s, i + 1, i + Len(substr)) = substr

(* fmt.Sprint([]string{"ena_support", "public"}) = "[ena_support public]". *)
columnsBool ==
    <<"[">> \o Chars("ena_support") \o <<" ">> \o Chars("public") \o <<"]">>

(* The Filter built for one column of the static table that has a         *)
(* predicate: lines 302-314.                                               *)
ColumnFilter(q, columnName) ==
    IF Contains(columnsBool, Chars(columnName))
    THEN [Name |-> filterQuals[columnName],
          Values |-> <<Sprint(getQualsValueByColumn(q, columnName, "boolean"))>>]
    ELSE LET value == getQualsValueByColumn(q, columnName, "string")
         IN  [Name |-> filterQuals[columnName],
              Values |-> IF value[1] = "string" THEN <<value[2]>> ELSE <<>>]

(* The columns of the static table that have a predicate: line 301. *)
PresentColumns(q) == {c \in DOMAIN filterQuals : c \in DOMAIN q}

(* The orders in which the range over the static table may visit a set of  *)
(* columns (the iteration order of a Go map is not fixed).                  *)
Orders(S) ==
    {o \in [1..Cardinality(S) -> S] : \A i, j \in DOMAIN o : i # j => o[i] # o[j]}

(* The column filters of buildAmisWithOwnerFilter, lines 277-317, for one  *)
(* iteration order of the static table.                                    *)
ColumnFilters(q, order) == [i \in DOMAIN order |-> ColumnFilter(q, order[i])]

(* The outcome of the cached getCommonColumns call as its caller sees it.   *)
NotCalled == <<"none", "">>
Resolved(accountId) == <<"ok", accountId>>
ResolveFailed(e) == <<"err", e>>

(* Whether buildAmisWithOwnerFilter reaches the cached call: lines 320-327. *)
NeedsIdentity(q, amiType) == amiType # "SHARED_AMI" /\ "owner_id" \notin DOMAIN q

(* Faulty variant: the owner-id filter always takes the resolved identity. *)
OwnerFilterFromIdentity(q, amiType, columnFilters, identity) ==
    IF amiType = "SHARED_AMI" THEN columnFilters
    ELSE IF identity[1] = "err" THEN columnFilters
    ELSE Append(columnFilters, [Name |-> "owner-id", Values |-> <<identity[2]>>])

(* Faulty variant: a failed resolution does not return early. *)
OwnerFilterNoEarlyReturn(q, amiType, columnFilters, identity) ==
    IF amiType = "SHARED_AMI" THEN columnFilters
    ELSE IF "owner_id" \in DOMAIN q
    THEN Append(columnFilters,
                [Name |-> "owner-id",
                 Values |-> <<getQualsValueByColumn(q, "owner_id", "string")[2]>>])
    ELSE Append(columnFilters, [Name |-> "owner-id", Values |-> <<identity[2]>>])

(* The owner part of buildAmisWithOwnerFilter, lines 319-338: columnFilters *)
(* are the filters built so far, identity the outcome of the cached call.   *)
OwnerFilter(q, amiType, columnFilters, identity) ==
    IF amiType = "SHARED_AMI" THEN columnFilters
    ELSE IF "owner_id" \in DOMAIN q
    THEN Append(columnFilters,
                [Name |-> "owner-id",
                 Values |-> <<getQualsValueByColumn(q, "owner_id", "string")[2]>>])
    ELSE IF identity[1] = "err" THEN columnFilters
    ELSE Append(columnFilters, [Name |-> "owner-id", Values |-> <<identity[2]>>])

(* The predicate maps: at most k optional columns, with or without the     *)
(* owner predicate.                                                          *)
OwnerValues == {<<"string", a>> : a \in Accounts}
QualMaps(columns, k) ==
    UNION {[S -> QualValue] \cup
           {[c \in S \cup {"owner_id"} |->
                IF c = "owner_id" THEN o ELSE m[c]] :
                    m \in [S -> QualValue], o \in OwnerValues} :
           S \in {T \in SUBSET columns : Cardinality(T) <= k}}

---------------------------------------------------------------------------
(* The paginator of the AWS SDK, as listAWSExplorerSupportedTypes uses it. *)

(* Faulty variant: only the first page counts as a page to fetch. *)
HasMorePagesFirstOnly(first, token) == first

(* paginator.HasMorePages(). *)
HasMorePages(first, token) == first \/ (token # NoToken /\ token # "")

(* Faulty variant: the returned token is kept without the duplicate check. *)
AdvanceTokenNoStop(prevToken, returned) == returned

(* The token NextPage keeps after a page: the one the provider returned,   *)
(* or nil when StopOnDuplicateToken is set and it equals the one sent.     *)
AdvanceToken(prevToken, returned) ==
    IF StopOnDuplicateToken /\ prevToken # NoToken /\ returned # NoToken
       /\ prevToken = returned
    THEN NoToken
    ELSE returned

(* Faulty variant: the failure is logged and nil is returned. *)
ReturnedErrorSwallowed(e) == NoError

(* What the list functions return when a call fails: the error itself. *)
ReturnedError(e) == e

(* Faulty variant: the result of RowsRemaining is not acted on. *)
AfterRowsRemainingIgnored(r) == "Range"

(* Where the list functions go after RowsRemaining returned r. *)
AfterRowsRemaining(r) == IF r = 0 THEN "StoppedEarly" ELSE "Range"

(* Where the list functions go when the range over a page ends. *)
AfterPage(f) == IF f = "explorer" THEN "HasMorePages" ELSE "Done"

---------------------------------------------------------------------------
(* listAWSExplorerSupportedTypes *)

(* Lines 38-52: create the client and the paginator. *)
ExplorerStart ==
    /\ fn = "explorer" /\ pc = "Start"
    /\ \/ \E e \in Errors :
            /\ raised' = e
            /\ err' = ReturnedError(e)
            /\ pc' = "Failed"
            /\ UNCHANGED <<firstPage, nextToken>>
       \/ /\ pc' = "Unsupported"
          /\ UNCHANGED <<raised, err, firstPage, nextToken>>
       \/ /\ firstPage' = TRUE
          /\ nextToken' = NoToken
          /\ pc' = "HasMorePages"
          /\ UNCHANGED <<raised, err>>
    /\ UNCHANGED <<fn, quals, output, idx, streamed, fetches, zeroAt, input,
                   filters>>
    /\ UNCHANGED cacheVars

(* Line 54 and line 71: the loop condition. *)
LoopCondition ==
    /\ fn = "explorer" /\ pc = "HasMorePages"
    /\ pc' = IF HasMorePages(firstPage, nextToken) THEN "NextPage" ELSE "Done"
    /\ UNCHANGED <<fn, quals, raised, err, input, filters>>
    /\ UNCHANGED listVars
    /\ UNCHANGED cacheVars

(* Lines 55-59: paginator.NextPage. *)
NextPage ==
    /\ fn = "explorer" /\ pc = "NextPage"
    /\ Len(fetches) < MaxFetches
    /\ \/ \E e \in Errors :
            /\ fetches' = Append(fetches, [token |-> nextToken, ok |-> FALSE,
                                           n |-> 0, next |-> NoToken])
            /\ raised' = e
            /\ err' = ReturnedError(e)
            /\ pc' = "Failed"
            /\ UNCHANGED <<firstPage, nextToken, output, idx>>
       \/ \E n \in 0..MaxPage, returned \in TokenValues \cup {NoToken} :
            /\ n <= Limit
            /\ fetches' = Append(fetches, [token |-> nextToken, ok |-> TRUE,
                                           n |-> n, next |-> returned])
            /\ firstPage' = FALSE
            /\ nextToken' = AdvanceToken(nextToken, returned)
            /\ output' = n
            /\ idx' = 0
            /\ pc' = "Range"
            /\ UNCHANGED <<raised, err>>
    /\ UNCHANGED <<fn, quals, streamed, zeroAt, input, filters>>
    /\ UNCHANGED cacheVars

---------------------------------------------------------------------------
(* The streaming loop of both list functions. *)

(* d.StreamListItem: part_000 line 62, table_aws_ec2_ami_shared.go line 245. *)
StreamListItem ==
    /\ pc = "Range" /\ idx < output
    /\ streamed' = Append(streamed, <<Len(fetches), idx + 1>>)
    /\ idx' = idx + 1
    /\ pc' = "RowsRemaining"
    /\ UNCHANGED <<fn, quals, firstPage, nextToken, output, fetches, raised,
                   err, zeroAt, input, filters>>
    /\ UNCHANGED cacheVars

(* d.QueryStatus.RowsRemaining: part_000 lines 65-67, ami lines 248-250. *)
RowsRemaining ==
    /\ pc = "RowsRemaining"
    /\ \E r \in {0, 1} :
        /\ zeroAt' = IF r = 0 THEN Len(streamed) ELSE zeroAt
        /\ pc' = AfterRowsRemaining(r)
    /\ UNCHANGED <<fn, quals, firstPage, nextToken, output, idx, streamed,
                   fetches, raised, err, input, filters>>
    /\ UNCHANGED cacheVars

(* The range over a page ends: part_000 line 68, ami lines 251-252. *)
PageDone ==
    /\ pc = "Range" /\ idx = output
    /\ pc' = AfterPage(fn)
    /\ UNCHANGED <<fn, quals, raised, err, input, filters>>
    /\ UNCHANGED listVars
    /\ UNCHANGED cacheVars

---------------------------------------------------------------------------
(* listAmisByOwner and buildAmisWithOwnerFilter *)

Hydrates == DOMAIN image
Users == DOMAIN apc

(* The amiType the list function passes to buildAmisWithOwnerFilter:       *)
(* listAmisByOwner passes "SHARED_AMI" (line 232); the list function of    *)
(* the table of the caller's own AMIs passes another type.                  *)
AmiType(f) == IF f = "amis" THEN "SHARED_AMI" ELSE "AMI"

(* Lines 219 and 228-236: the DescribeImagesInput of listAmisByOwner. *)
ListAmisInput(q, f) ==
    [Owners |-> <<GetStringValue(q["owner_id"])>>, Filters |-> f]

(* Faulty variant: getImageOwnerAlias calls getCommonColumns itself. *)
WithCacheListerOnly(a) == a = Lister

(* Both users of getCommonColumns wrap it with the connection cache:      *)
(* lines 258 and 326.                                                      *)
WithCache(a) == TRUE

(* Faulty variant: the comparison with the caller's account is inverted. *)
getImageOwnerAliasInverted(img, c) ==
    IF c[1] = "err" THEN <<"<nil>", c[2]>>
    ELSE IF img.ImageOwnerAlias = NoAlias /\ c[2] = img.OwnerId
    THEN <<img.OwnerId, NoError>>
    ELSE IF img.ImageOwnerAlias = NoAlias
    THEN <<"self", NoError>>
    ELSE <<img.ImageOwnerAlias, NoError>>

(* getImageOwnerAlias, lines 255-272: img is h.Item, c the outcome of the  *)
(* cached getCommonColumns call.  The result is <<value, error>>.          *)
getImageOwnerAlias(img, c) ==
    IF c[1] = "err" THEN <<"<nil>", c[2]>>
    ELSE IF img.ImageOwnerAlias = NoAlias /\ c[2] # img.OwnerId
    THEN <<img.OwnerId, NoError>>
    ELSE IF img.ImageOwnerAlias = NoAlias
    THEN <<"self", NoError>>
    ELSE <<img.ImageOwnerAlias, NoError>>

(* Lines 219-226 and 232: read the owner, create the client, build the     *)
(* filters.                                                                 *)
ListAmisByOwner ==
    /\ fn = "amis" /\ pc = "Start"
    /\ \/ \E e \in Errors :
            /\ raised' = e
            /\ err' = ReturnedError(e)
            /\ pc' = "Failed"
       \/ /\ pc' = "Build"
          /\ UNCHANGED <<raised, err>>
    /\ UNCHANGED <<fn, quals, input, filters>>
    /\ UNCHANGED listVars
    /\ UNCHANGED cacheVars

(* buildAmisWithOwnerFilter up to its cached call: lines 276-327. *)
BuildFilters ==
    /\ pc = "Build"
    /\ \E order \in Orders(PresentColumns(quals)) :
        LET columnFilters == ColumnFilters(quals, order)
        IN  IF NeedsIdentity(quals, AmiType(fn))
            THEN /\ filters' = columnFilters
                 /\ apc' = [apc EXCEPT ![Lister] = "wait"]
                 /\ pc' = "BuildWait"
            ELSE /\ filters' = OwnerFilter(quals, AmiType(fn), columnFilters,
                                           NotCalled)
                 /\ pc' = "Built"
                 /\ UNCHANGED apc
    /\ UNCHANGED <<fn, quals, raised, err, input>>
    /\ UNCHANGED listVars
    /\ UNCHANGED <<cache, lock, calls, aret, image, alias>>

(* What a user does with the outcome c of the cached call:                 *)
(* buildAmisWithOwnerFilter lines 328-338, getImageOwnerAlias lines        *)
(* 260-271.                                                                 *)
Return(a, c) ==
    /\ aret' = [aret EXCEPT ![a] = c]
    /\ apc' = [apc EXCEPT ![a] = "done"]
    /\ IF a = Lister
       THEN /\ filters' = OwnerFilter(quals, AmiType(fn), filters, c)
            /\ pc' = "Built"
            /\ UNCHANGED alias
       ELSE /\ alias' = [alias EXCEPT ![a] = getImageOwnerAlias(image[a], c)]
            /\ UNCHANGED <<filters, pc>>

(* The cached function is entered: the function lock is taken and the      *)
(* cache is looked up; a hit returns the cached identity.                   *)
CachedCall(a) ==
    /\ apc[a] = "wait"
    /\ lock = {}
    /\ IF WithCache(a) /\ cache # NoIdentity
       THEN /\ Return(a, Resolved(cache))
            /\ UNCHANGED lock
       ELSE /\ lock' = {a}
            /\ apc' = [apc EXCEPT ![a] = "resolving"]
            /\ UNCHANGED <<aret, filters, pc, alias>>
    /\ UNCHANGED <<fn, quals, raised, err, input, cache, calls, image>>
    /\ UNCHANGED listVars

(* getCommonColumns returns: a resolved identity is cached, a failure is   *)
(* not; the function lock is released.                                      *)
GetCommonColumns(a) ==
    /\ apc[a] = "resolving"
    /\ calls' = [calls EXCEPT ![a] = @ + 1]
    /\ lock' = lock \ {a}
    /\ \/ /\ cache' = CallerAccount
          /\ Return(a, Resolved(CallerAccount))
       \/ \E e \in Errors :
          /\ Return(a, ResolveFailed(e))
          /\ UNCHANGED cache
    /\ UNCHANGED <<fn, quals, raised, err, input, image>>
    /\ UNCHANGED listVars

(* Lines 228-243: the DescribeImages call of listAmisByOwner. *)
DescribeImages ==
    /\ fn = "amis" /\ pc = "Built"
    /\ Len(fetches) < MaxFetches
    /\ input' = ListAmisInput(quals, filters)
    /\ \/ \E e \in Errors :
            /\ fetches' = Append(fetches, [token |-> NoToken, ok |-> FALSE,
                                           n |-> 0, next |-> NoToken])
            /\ raised' = e
            /\ err' = ReturnedError(e)
            /\ pc' = "Failed"
            /\ UNCHANGED <<output, idx>>
       \/ \E n \in 0..MaxPage :
            /\ fetches' = Append(fetches, [token |-> NoToken, ok |-> TRUE,
                                           n |-> n, next |-> NoToken])
            /\ output' = n
            /\ idx' = 0
            /\ pc' = "Range"
            /\ UNCHANGED <<raised, err>>
    /\ UNCHANGED <<fn, quals, firstPage, nextToken, streamed, zeroAt, filters>>
    /\ UNCHANGED cacheVars

---------------------------------------------------------------------------
(* Specifications. *)

Images == [ImageOwnerAlias : {NoAlias} \cup Aliases, OwnerId : Accounts]

(* The state before the list function runs, for list function f with       *)
(* predicate map q and the hydrate calls H.                                  *)
InitWith(f, q, H) ==
    /\ fn = f
    /\ quals = q
    /\ pc = IF f = "ami" THEN "Build" ELSE "Start"
    /\ firstPage = FALSE
    /\ nextToken = NoToken
    /\ output = 0
    /\ idx = 0
    /\ streamed = <<>>
    /\ fetches = <<>>
    /\ raised = NoError
    /\ err = NoError
    /\ zeroAt = 0
    /\ input = [Owners |-> <<>>, Filters |-> <<>>]
    /\ filters = <<>>
    /\ cache = NoIdentity
    /\ lock = {}
    /\ calls = [a \in H \cup {Lister} |-> 0]
    /\ apc = [a \in H \cup {Lister} |-> IF a = Lister THEN "idle" ELSE "wait"]
    /\ aret = [a \in H \cup {Lister} |-> NotCalled]
    /\ image \in [H -> Images]
    /\ alias = [a \in H |-> <<"<nil>", NoError>>]

(* owner_id is a required key column of listAmisByOwner (line 33). *)
QualsFor(f, maps) ==
    IF f = "explorer" THEN {<<>>}
    ELSE IF f = "amis" THEN {q \in maps : "owner_id" \in DOMAIN q}
    ELSE maps

(* The two list functions, each running alone to its end. *)
InitList ==
    \E f \in {"explorer", "amis"} :
        \E q \in QualsFor(f, QualMaps({"name"}, 1)) : InitWith(f, q, {})

NextList ==
    \/ ExplorerStart
    \/ LoopCondition
    \/ NextPage
    \/ StreamListItem
    \/ RowsRemaining
    \/ PageDone
    \/ ListAmisByOwner
    \/ BuildFilters
    \/ DescribeImages

SpecList == InitList /\ [][NextList]_vars /\ WF_vars(NextList)

(* buildAmisWithOwnerFilter on every predicate map of at most MaxQuals      *)
(* optional columns.                                                         *)
InitFilter ==
    \E f \in {"amis", "ami"} :
        \E q \in QualsFor(f, QualMaps(OptionalColumns, MaxQuals)) :
            InitWith(f, q, {})

(* listAmisByOwner is followed up to its DescribeImages call; its          *)
(* streaming loop is the one of SpecList.                                   *)
NextAmi ==
    \/ ListAmisByOwner
    \/ BuildFilters
    \/ \E a \in Users : CachedCall(a)
    \/ \E a \in Users : GetCommonColumns(a)
    \/ DescribeImages

SpecFilter == InitFilter /\ [][NextAmi]_vars

(* One query context: a list function that builds its filters and          *)
(* NumHydrates getImageOwnerAlias calls, all using the cached identity.     *)
InitOwner ==
    \E f \in {"amis", "ami"} :
        \E q \in QualsFor(f, QualMaps({"name"}, 1)) :
            InitWith(f, q, 1..NumHydrates)

SpecOwner == InitOwner /\ [][NextAmi]_vars

---------------------------------------------------------------------------
(* Properties of the list functions, under SpecList. *)

Halted == pc \in {"Done", "StoppedEarly", "Failed", "Unsupported"}

(* The run reached the number of provider calls the model explores. *)
Capped == pc = "NextPage" /\ Len(fetches) = MaxFetches

(* C1: if RowsRemaining first returns 0 in the check made right after the  *)
(* k-th streamed row (k >= 1), the list function (either of the two) halts *)
(* in StoppedEarly with exactly k rows streamed, and from then on streams  *)
(* no row and fetches no page, whatever items and pages remain.            *)
C1_StopsAfterKRows ==
    /\ [](zeroAt # 0 =>
            /\ pc = "StoppedEarly"
            /\ zeroAt >= 1
            /\ Len(streamed) = zeroAt)
    /\ [][zeroAt # 0 => UNCHANGED <<pc, streamed, fetches>>]_vars

(* C1 witness: the paginated lister stopped on its second page, after two  *)
(* or more rows, with items of the page and a further page remaining.      *)
C1_Witness ==
    /\ fn = "explorer" /\ pc = "StoppedEarly"
    /\ zeroAt >= 2 /\ Len(streamed) = zeroAt
    /\ Len(fetches) = 2 /\ idx < output
    /\ HasMorePages(firstPage, nextToken)

(* C2: with no failing fetch and no RowsRemaining() = 0 the lister halts   *)
(* in Done, having streamed every item of every page exactly once, in page *)
(* order and item order, every page being streamed in full before the next *)
(* one is fetched, and Done is reached only when the provider has no more  *)
(* pages.                                                                   *)
C2_AllPagesThenDone ==
    /\ <>(Halted \/ Capped)
    /\ [](Halted /\ err = NoError /\ zeroAt = 0 => pc \in {"Done", "Unsupported"})
    /\ [](pc \in {"HasMorePages", "NextPage", "Done"} => streamed = AllRows(fetches))
    /\ [](pc = "Done" =>
            /\ fetches # <<>>
            /\ \A i \in DOMAIN fetches : fetches[i].ok
            /\ \/ Last(fetches).next \in {NoToken, ""}
               \/ Last(fetches).next = Last(fetches).token)

(* C2 witness: three pages of sizes 2, 2 and 1 were streamed, five rows,   *)
(* and the lister is Done.                                                  *)
C2_Witness ==
    /\ fn = "explorer" /\ pc = "Done"
    /\ Len(fetches) = 3
    /\ fetches[1].n = 2 /\ fetches[2].n = 2 /\ fetches[3].n = 1
    /\ Last(fetches).next = NoToken
    /\ streamed = <<<<1, 1>>, <<1, 2>>, <<2, 1>>, <<2, 2>>, <<3, 1>>>>

(* C3: when a fetch (or the creation of the client) fails the listing      *)
(* aborts: the error is returned unchanged, the rows streamed are exactly  *)
(* those of the earlier pages, and nothing is fetched or streamed          *)
(* afterwards.                                                              *)
C3_FetchErrorAborts ==
    /\ [](pc = "Failed" =>
            /\ err = raised /\ err \in Errors
            /\ fetches = <<>> \/ ~Last(fetches).ok
            /\ \A i \in DOMAIN fetches : i < Len(fetches) => fetches[i].ok
            /\ streamed = AllRows(fetches))
    /\ [](raised # NoError => pc = "Failed")
    /\ [][pc = "Failed" => UNCHANGED <<pc, err, streamed, fetches>>]_vars

(* C3 witness: the fetch of the second page failed after rows of the first *)
(* page were streamed.                                                      *)
C3_Witness ==
    /\ fn = "explorer" /\ pc = "Failed"
    /\ Len(fetches) = 2 /\ fetches[1].n = 2 /\ ~fetches[2].ok
    /\ Len(streamed) = 2 /\ err = "Throttling"

(* The provider returned the token the lister had just sent. *)
DuplicateToken ==
    /\ fn = "explorer" /\ fetches # <<>>
    /\ Last(fetches).ok
    /\ Last(fetches).token # NoToken
    /\ Last(fetches).next = Last(fetches).token

(* C9 as stated: each continuation token is used for at most one fetch.    *)
C9_TokenUsedOnce ==
    \A i, j \in DOMAIN fetches : i # j => fetches[i].token # fetches[j].token

(* C9 as amended: every fetch after the first sends the non-empty token    *)
(* the page before it returned, which is never the token that page was     *)
(* fetched with; when the provider returns the token just used the lister  *)
(* clears its cursor, fetches nothing more and reaches a terminal state.   *)
C9_NoImmediateRefetch ==
    /\ [](\A i \in 2..Len(fetches) :
            /\ fetches[i].token = fetches[i - 1].next
            /\ fetches[i].token \notin {NoToken, ""}
            /\ fetches[i].token # fetches[i - 1].token)
    /\ [](DuplicateToken => nextToken = NoToken /\ pc # "NextPage")
    /\ [][DuplicateToken => fetches' = fetches]_vars
    /\ (DuplicateToken ~> Halted)

(* C9 witness: the second page came back with the token it was fetched     *)
(* with, and the lister is Done after two fetches.                          *)
C9_Witness ==
    /\ DuplicateToken /\ pc = "Done"
    /\ Len(fetches) = 2 /\ fetches[2].token = "t1"
    /\ Len(streamed) = fetches[1].n + fetches[2].n
    /\ fetches[2].n > 0

---------------------------------------------------------------------------
(* Properties of buildAmisWithOwnerFilter, under SpecFilter. *)

(* The filters of the result that are not the owner-id filter. *)
ColumnFilterIndexes == {i \in DOMAIN filters : filters[i].Name # "owner-id"}

(* C4: for a predicate map of recognized columns the result holds exactly  *)
(* one column filter per present column and none for an absent one, each   *)
(* with the key the static table assigns to the column.                    *)
C4_OneFilterPerColumn ==
    pc = "Built" =>
        /\ Cardinality(ColumnFilterIndexes) = Cardinality(DOMAIN quals \ {"owner_id"})
        /\ \A c \in (DOMAIN quals \ {"owner_id"}) \cap DOMAIN filterQuals :
             Cardinality({i \in ColumnFilterIndexes :
                             filters[i].Name = filterQuals[c]}) = 1

(* C10: every filter emitted for a present column carries one value, the   *)
(* column's coerced value: the string of a string column, the formatted    *)
(* boolean of ena_support and public; none has an empty value set.         *)
C10_FilterCarriesValue ==
    pc = "Built" =>
        \A c \in PresentColumns(quals) :
            \E i \in ColumnFilterIndexes :
                /\ filters[i].Name = filterQuals[c]
                /\ Len(filters[i].Values) = 1
                /\ quals[c][1] = "bool" /\ c \in BoolColumns
                     => filters[i].Values = <<FormatBool(quals[c][2])>>
                /\ quals[c][1] = "string" /\ c \in StringColumns
                     => filters[i].Values = <<quals[c][2]>>

---------------------------------------------------------------------------
(* Properties of the owner scope and of the cached identity, under         *)
(* SpecOwner.                                                               *)

RECURSIVE SumOver(_, _)
SumOver(f, S) ==
    IF S = {} THEN 0
    ELSE LET a == CHOOSE x \in S : TRUE IN f[a] + SumOver(f, S \ {a})

(* The getCommonColumns calls issued in the query context so far. *)
TotalCalls == SumOver(calls, Users)

(* C5: with an explicit owner_id predicate the owner scope sent to the     *)
(* provider is the predicate's value, in the Owners of listAmisByOwner and *)
(* in the owner-id filter of the non-shared mode, and filter building      *)
(* issues no identity-resolution call.                                      *)
C5_ExplicitOwnerVerbatim ==
    "owner_id" \in DOMAIN quals =>
        /\ calls[Lister] = 0 /\ apc[Lister] = "idle"
        /\ fn = "amis" /\ fetches # <<>> =>
             /\ input.Owners = <<quals["owner_id"][2]>>
             /\ \A i \in DOMAIN input.Filters : input.Filters[i].Name # "owner-id"
        /\ fn = "ami" /\ pc = "Built" =>
             /\ filters # <<>>
             /\ Last(filters) = [Name |-> "owner-id",
                                 Values |-> <<quals["owner_id"][2]>>]
             /\ Cardinality(DOMAIN filters \ ColumnFilterIndexes) = 1

(* C5 witness: the non-shared mode built its filters for owner             *)
(* 222222222222, which is not the caller's account, while the hydrate      *)
(* calls of the context had resolved and cached the caller's identity.     *)
C5_Witness ==
    /\ fn = "ami" /\ pc = "Built"
    /\ "owner_id" \in DOMAIN quals /\ quals["owner_id"][2] = "222222222222"
    /\ "name" \in DOMAIN quals
    /\ Len(filters) = 2
    /\ cache = CallerAccount

C7_OwnerAlias ==
    \A h \in Hydrates :
        apc[h] = "done" /\ aret[h][1] = "ok" =>
            /\ image[h].ImageOwnerAlias # NoAlias
                 => alias[h] = <<image[h].ImageOwnerAlias, NoError>>
            /\ image[h].ImageOwnerAlias = NoAlias /\ image[h].OwnerId = aret[h][2]
                 => alias[h] = <<"self", NoError>>
            /\ image[h].ImageOwnerAlias = NoAlias /\ image[h].OwnerId # aret[h][2]
                 => alias[h] = <<image[h].OwnerId, NoError>>

(* C7 witness: one image owned by the caller got "self", one owned by       *)
(* another account got that account's id.                                   *)
C7_Witness ==
    \E g, h \in Hydrates :
        /\ apc[g] = "done" /\ apc[h] = "done"
        /\ image[g] = [ImageOwnerAlias |-> NoAlias, OwnerId |-> CallerAccount]
        /\ alias[g] = <<"self", NoError>>
        /\ image[h] = [ImageOwnerAlias |-> NoAlias, OwnerId |-> "222222222222"]
        /\ alias[h] = <<"222222222222", NoError>>

(* C8: a failed identity resolution leaves filter building with exactly    *)
(* the column filters, no owner-id filter and no error; it makes           *)
(* getImageOwnerAlias return the error and no value; no user calls again.  *)
C8_ResolutionFailure ==
    /\ apc[Lister] = "done" /\ aret[Lister][1] = "err" =>
         /\ pc = "Built" /\ err = NoError /\ raised = NoError
         /\ \E order \in Orders(PresentColumns(quals)) :
              filters = ColumnFilters(quals, order)
         /\ ColumnFilterIndexes = DOMAIN filters
    /\ \A h \in Hydrates :
         apc[h] = "done" /\ aret[h][1] = "err" =>
             alias[h] = <<"<nil>", aret[h][2]>> /\ aret[h][2] \in Errors
    /\ \A a \in Users : calls[a] <= 1
    /\ \A a \in Users : aret[a][1] = "err" => calls[a] = 1 /\ apc[a] = "done"

(* C8 witness: the resolution failed for filter building, which returned   *)
(* its one column filter, and failed for a hydrate call.                    *)
C8_Witness ==
    /\ fn = "ami" /\ pc = "Built"
    /\ aret[Lister][1] = "err" /\ Len(filters) = 1
    /\ \E h \in Hydrates : apc[h] = "done" /\ alias[h] = <<"<nil>", "AccessDenied">>

====
